---- MODULE Spec2Model ----
(***************************************************************************)
(* Model of imessage_stats.py: load_messages delivers the rows ordered by  *)
(* (chat ROWID, date); build_report groups them by chat, runs the backward *)
(* scan next_opposite_times on every chat, folds the per-message signals   *)
(* into per-chat and global statistics, ranks the chats and truncates the  *)
(* ranking to the configured top.                                          *)
(*                                                                         *)
(* Optional[int] values are integers with None as the absent value; raw    *)
(* timestamps are non-negative and sampled at whole hours, so that the     *)
(* differences fall below, on and above threshold_hours * 3600.  All raw    *)
(* timestamps of the model lie below 1e11, where detect_date_scale answers *)
(* divisor 1.  A duration in minutes is dt_seconds / 60 and is kept as its *)
(* numerator dt_seconds over SecondsPerMinute; a summary value rounded to  *)
(* two decimals is kept as a number of hundredths of a minute.             *)
(***************************************************************************)
EXTENDS Integers, Sequences, FiniteSets, TLC

\* ---------------------------------------------------------------- bounds
MaxMsgs == 3
MaxChats == 2
MaxTick == 2
MaxReadTick == 1
MaxThresholdHours == 1
MaxTop == 2
MaxNegTop == 1
MaxSamples == 10
MaxFirstThirds == 3

\* ------------------------------------------------------------- constants
None == -1
SecondsPerHour == 3600
SecondsPerMinute == 60

RawDates == {h * SecondsPerHour : h \in 0..MaxTick}
RawReads == {h * SecondsPerHour : h \in 0..MaxReadTick}

Message == [chat_id : 1..MaxChats,
            date_raw : {None} \cup RawDates,
            date_read_raw : {None} \cup RawReads,
            is_from_me : {0, 1}]

VARIABLES pc, messages, divisor, threshold_hours, top,
          messages_by_chat, chats, scans,
          totals_sent, totals_received, left_on_read_you, left_on_read_them,
          you_reply_minutes, them_reply_minutes, report

vars == <<pc, messages, divisor, threshold_hours, top,
          messages_by_chat, chats, scans,
          totals_sent, totals_received, left_on_read_you, left_on_read_them,
          you_reply_minutes, them_reply_minutes, report>>

\* ------------------------------------------------------- load_messages
\* ORDER BY c.ROWID ASC, m.date ASC; a NULL date sorts before every value.
RowOrdered(a, b) ==
    \/ a.chat_id < b.chat_id
    \/ a.chat_id = b.chat_id /\ a.date_raw <= b.date_raw

\* SELECT MAX(date): None when there is no non-null date.
RECURSIVE MaxDateFrom(_, _, _)
MaxDateFrom(msgs, k, best) ==
    IF k > Len(msgs) THEN best
    ELSE MaxDateFrom(msgs, k + 1,
                     IF msgs[k].date_raw > best THEN msgs[k].date_raw ELSE best)

MaxDate(msgs) == MaxDateFrom(msgs, 1, None)

\* Every raw timestamp of the model is below 1e11.
detect_date_scale(max_date_value) ==
    IF max_date_value = None \/ max_date_value = 0 THEN 1 ELSE 1

\* ------------------------------------------------- next_opposite_times
UpdateTracker_NoNullCheck(msg, tracker) == msg.date_raw

UpdateTracker_KeepFirstSet(msg, tracker) ==
    IF tracker = None THEN msg.date_raw ELSE tracker

UpdateTracker(msg, tracker) ==
    IF msg.date_raw # None THEN msg.date_raw ELSE tracker

ReplyType(tracker, direction) == IF tracker # None THEN direction ELSE None

RECURSIVE ScanBack(_, _, _, _, _, _)
ScanBack(msgs, i, next_from_me_raw, next_from_them_raw, times, types) ==
    IF i = 0 THEN [time |-> times, type |-> types]
    ELSE IF msgs[i].is_from_me = 1
         THEN ScanBack(msgs, i - 1,
                       UpdateTracker(msgs[i], next_from_me_raw),
                       next_from_them_raw,
                       [times EXCEPT ![i] = next_from_them_raw],
                       [types EXCEPT ![i] = ReplyType(next_from_them_raw, 0)])
         ELSE ScanBack(msgs, i - 1,
                       next_from_me_raw,
                       UpdateTracker(msgs[i], next_from_them_raw),
                       [times EXCEPT ![i] = next_from_me_raw],
                       [types EXCEPT ![i] = ReplyType(next_from_me_raw, 1)])

next_opposite_times(msgs) ==
    ScanBack(msgs, Len(msgs), None, None,
             [k \in 1..Len(msgs) |-> None], [k \in 1..Len(msgs) |-> None])

\* -------------------------------------------- summarize_response_times
RECURSIVE InsertAsc(_, _)
InsertAsc(s, x) ==
    IF s = <<>> THEN <<x>>
    ELSE IF x < Head(s) THEN <<x>> \o s
         ELSE <<Head(s)>> \o InsertAsc(Tail(s), x)

RECURSIVE sorted(_)
sorted(s) == IF s = <<>> THEN <<>> ELSE InsertAsc(sorted(Tail(s)), Head(s))

\* Python's round of the double 0.9 * m: the product is exactly
\* representable as k + 1/2 when 9 * m mod 10 = 5, and round() then goes to
\* the even neighbour.
RoundNineTenths(m) ==
    LET q == (9 * m) \div 10
        r == (9 * m) % 10
    IN  IF r < 5 THEN q
        ELSE IF r > 5 THEN q + 1
        ELSE IF q % 2 = 0 THEN q ELSE q + 1

Max0(x) == IF x < 0 THEN 0 ELSE x

\* round(x, 2) of x = v / 60 minutes, in hundredths: 100 * v / 60 = 5 * v / 3
\* never has the fractional part one half, so no tie arises.
Round2(v) == (v * 100 + SecondsPerMinute \div 2) \div SecondsPerMinute

\* avg_minutes and median_minutes are not represented.
summarize_response_times(durations_minutes) ==
    IF durations_minutes = <<>>
    THEN [count |-> 0, p90_minutes |-> None]
    ELSE LET sorted_vals == sorted(durations_minutes)
             p90_index == Max0(RoundNineTenths(Len(sorted_vals) - 1))
         IN  [count |-> Len(sorted_vals),
              p90_minutes |-> Round2(sorted_vals[p90_index + 1])]

\* --------------------------------------------------------- build_report
SetDefaultAppend(d, msg) ==
    IF \E p \in 1..Len(d) : d[p].chat_id = msg.chat_id
    THEN [p \in 1..Len(d) |->
            IF d[p].chat_id = msg.chat_id
            THEN [d[p] EXCEPT !.msgs = Append(@, msg)]
            ELSE d[p]]
    ELSE Append(d, [chat_id |-> msg.chat_id, msgs |-> <<msg>>])

RECURSIVE GroupFrom(_, _, _)
GroupFrom(msgs, k, acc) ==
    IF k > Len(msgs) THEN acc
    ELSE GroupFrom(msgs, k + 1, SetDefaultAppend(acc, msgs[k]))

GroupByChat(msgs) == GroupFrom(msgs, 1, <<>>)

IsSent_Never(msg) == FALSE

IsSent(msg) == msg.is_from_me = 1

\* response times
SampleToThem_Swapped(msg) == msg.is_from_me # 1

SampleToThem(msg) == msg.is_from_me = 1

HasSample(msg, next_raw) ==
    /\ next_raw # None
    /\ msg.date_raw # None
    /\ next_raw - msg.date_raw >= 0

\* minutes = dt_seconds / 60, as the numerator over SecondsPerMinute.
SampleMinutes(msg, next_raw, div) == (next_raw - msg.date_raw) \div div

RECURSIVE SamplesFrom(_, _, _, _, _)
SamplesFrom(msgs, times, idx, toThem, div) ==
    IF idx > Len(msgs) THEN <<>>
    ELSE (IF HasSample(msgs[idx], times[idx]) /\ (SampleToThem(msgs[idx]) = toThem)
          THEN <<SampleMinutes(msgs[idx], times[idx], div)>>
          ELSE <<>>)
         \o SamplesFrom(msgs, times, idx + 1, toThem, div)

\* left on read checks
NormalizeRead_ZeroIsRead(raw) == raw

NormalizeRead(raw) == IF raw \in {None, 0} THEN None ELSE raw

RepliedInTime_NoLowerBound(next_raw, base_raw, div, threshold_seconds) ==
    /\ next_raw # None
    /\ base_raw # None
    /\ next_raw - base_raw <= threshold_seconds * div

RepliedInTime(next_raw, base_raw, div, threshold_seconds) ==
    /\ next_raw # None
    /\ base_raw # None
    /\ next_raw - base_raw >= 0
    /\ next_raw - base_raw <= threshold_seconds * div

LeftOnRead(msg, next_raw, div, threshold_seconds) ==
    LET date_read_raw == NormalizeRead(msg.date_read_raw)
    IN  /\ date_read_raw # None
        /\ msg.date_raw # None
        /\ ~RepliedInTime(next_raw, date_read_raw, div, threshold_seconds)

LeftByThem_Swapped(msg) == msg.is_from_me # 1

LeftByThem(msg) == msg.is_from_me = 1

Count(S) == Cardinality(S)

ChatScan(msgs, div) ==
    LET nt == next_opposite_times(msgs)
    IN  [time |-> nt.time, type |-> nt.type,
         you_reply |-> SamplesFrom(msgs, nt.time, 1, FALSE, div),
         them_reply |-> SamplesFrom(msgs, nt.time, 1, TRUE, div)]

ChatEntry(chat_id, msgs, scan, div, threshold_seconds) ==
    LET idxs == 1..Len(msgs)
        sent == Count({i \in idxs : IsSent(msgs[i])})
        received == Count({i \in idxs : ~IsSent(msgs[i])})
        left == {i \in idxs : LeftOnRead(msgs[i], scan.time[i], div, threshold_seconds)}
        you_left == Count({i \in left : ~LeftByThem(msgs[i])})
        them_left == Count({i \in left : LeftByThem(msgs[i])})
    IN  [chat_id |-> chat_id,
         totals |-> [sent |-> sent, received |-> received, total |-> sent + received],
         left_on_read |-> [you_left_them |-> you_left, they_left_you |-> them_left],
         response_times |-> [you_reply |-> summarize_response_times(scan.you_reply),
                             they_reply |-> summarize_response_times(scan.them_reply)]]

Accumulate_Overwrite(acc, x) == x

Accumulate(acc, x) == acc + x

\* chat_list.sort(key=total, reverse=True): stable, equal keys keep their order.
RECURSIVE InsertDesc_TiesFirst(_, _)
InsertDesc_TiesFirst(s, c) ==
    IF s = <<>> THEN <<c>>
    ELSE IF c.totals.total >= Head(s).totals.total THEN <<c>> \o s
         ELSE <<Head(s)>> \o InsertDesc_TiesFirst(Tail(s), c)

RECURSIVE InsertDesc(_, _)
InsertDesc(s, c) ==
    IF s = <<>> THEN <<c>>
    ELSE IF c.totals.total > Head(s).totals.total THEN <<c>> \o s
         ELSE <<Head(s)>> \o InsertDesc(Tail(s), c)

RECURSIVE SortFrom(_, _, _)
SortFrom(cs, k, acc) ==
    IF k > Len(cs) THEN acc ELSE SortFrom(cs, k + 1, InsertDesc(acc, cs[k]))

SortByTotal(cs) == SortFrom(cs, 1, <<>>)

\* chat_list[:top] with Python's slice semantics.
SliceTo_OneMore(s, n) ==
    LET stop == IF n >= 0 THEN (IF n + 1 < Len(s) THEN n + 1 ELSE Len(s))
                ELSE Max0(Len(s) + n)
    IN  SubSeq(s, 1, stop)

SliceTo(s, n) ==
    LET stop == IF n >= 0 THEN (IF n < Len(s) THEN n ELSE Len(s))
                ELSE Max0(Len(s) + n)
    IN  SubSeq(s, 1, stop)

Summary ==
    [totals |-> [sent |-> totals_sent, received |-> totals_received,
                 total |-> totals_sent + totals_received],
     left_on_read |-> [you_left_them |-> left_on_read_you,
                       they_left_you |-> left_on_read_them],
     response_times |-> [you_reply |-> summarize_response_times(you_reply_minutes),
                         they_reply |-> summarize_response_times(them_reply_minutes)]]

\* ---------------------------------------------------------------- actions
Init ==
    /\ pc = "load"
    /\ messages = <<>>
    /\ divisor = 1
    /\ threshold_hours = 0
    /\ top = 0
    /\ messages_by_chat = <<>>
    /\ chats = <<>>
    /\ scans = <<>>
    /\ totals_sent = 0
    /\ totals_received = 0
    /\ left_on_read_you = 0
    /\ left_on_read_them = 0
    /\ you_reply_minutes = <<>>
    /\ them_reply_minutes = <<>>
    /\ report = <<>>

\* load_messages: one row of the ordered result set is appended.
LoadRow ==
    /\ pc = "load"
    /\ Len(messages) < MaxMsgs
    /\ \E row \in Message :
         /\ IF messages = <<>> THEN TRUE
            ELSE RowOrdered(messages[Len(messages)], row)
         /\ messages' = Append(messages, row)
    /\ UNCHANGED <<pc, divisor, threshold_hours, top, messages_by_chat, chats, scans,
                   totals_sent, totals_received, left_on_read_you, left_on_read_them,
                   you_reply_minutes, them_reply_minutes, report>>

\* main calls build_report; build_report up to the loop over the chats.
StartReport ==
    /\ pc = "load"
    /\ \E th \in 0..MaxThresholdHours : threshold_hours' = th
    /\ \E t \in (0 - MaxNegTop)..MaxTop : top' = t
    /\ divisor' = detect_date_scale(MaxDate(messages))
    /\ messages_by_chat' = GroupByChat(messages)
    /\ pc' = "chats"
    /\ UNCHANGED <<messages, chats, scans,
                   totals_sent, totals_received, left_on_read_you, left_on_read_them,
                   you_reply_minutes, them_reply_minutes, report>>

\* One iteration of "for chat_id, msgs in messages_by_chat.items()".
ProcessChat ==
    /\ pc = "chats"
    /\ Len(chats) < Len(messages_by_chat)
    /\ LET item == messages_by_chat[Len(chats) + 1]
           scan == ChatScan(item.msgs, divisor)
           entry == ChatEntry(item.chat_id, item.msgs, scan, divisor,
                              threshold_hours * SecondsPerHour)
       IN  /\ scans' = Append(scans, scan)
           /\ chats' = Append(chats, entry)
           /\ totals_sent' = Accumulate(totals_sent, entry.totals.sent)
           /\ totals_received' = Accumulate(totals_received, entry.totals.received)
           /\ left_on_read_you' = Accumulate(left_on_read_you, entry.left_on_read.you_left_them)
           /\ left_on_read_them' = Accumulate(left_on_read_them, entry.left_on_read.they_left_you)
           /\ you_reply_minutes' = you_reply_minutes \o scan.you_reply
           /\ them_reply_minutes' = them_reply_minutes \o scan.them_reply
    /\ UNCHANGED <<pc, messages, divisor, threshold_hours, top, messages_by_chat, report>>

\* Sort, summary and truncation.
RankAndReturn ==
    /\ pc = "chats"
    /\ Len(chats) = Len(messages_by_chat)
    /\ report' = [summary |-> Summary, chats |-> SliceTo(SortByTotal(chats), top)]
    /\ pc' = "done"
    /\ UNCHANGED <<messages, divisor, threshold_hours, top, messages_by_chat, chats, scans,
                   totals_sent, totals_received, left_on_read_you, left_on_read_them,
                   you_reply_minutes, them_reply_minutes>>

Next == LoadRow \/ StartReport \/ ProcessChat \/ RankAndReturn

Spec == Init /\ [][Next]_vars

\* ------------------------------------ summarize_response_times on its own
\* The pooled list you_reply_minutes as build_report hands it to
\* summarize_response_times: whole seconds over 60, in any order.  The lists
\* start at a multiple of a third of a minute and move by at most one minute
\* from one sample to the next.
InitP90 ==
    /\ pc = "samples"
    /\ messages = <<>>
    /\ divisor = 1
    /\ threshold_hours = 0
    /\ top = 0
    /\ messages_by_chat = <<>>
    /\ chats = <<>>
    /\ scans = <<>>
    /\ totals_sent = 0
    /\ totals_received = 0
    /\ left_on_read_you = 0
    /\ left_on_read_them = 0
    /\ you_reply_minutes = <<>>
    /\ them_reply_minutes = <<>>
    /\ report = <<>>

FirstSamples == {k * (SecondsPerMinute \div 3) : k \in 0..MaxFirstThirds}

NextSamples(last) ==
    {v \in {last - SecondsPerMinute, last, last + SecondsPerMinute} : v >= 0}

\* you_reply_minutes.extend(...): one more sample in the pooled list.
AddSample ==
    /\ pc = "samples"
    /\ Len(you_reply_minutes) < MaxSamples
    /\ \E v \in (IF you_reply_minutes = <<>> THEN FirstSamples
                  ELSE NextSamples(you_reply_minutes[Len(you_reply_minutes)])) :
          you_reply_minutes' = Append(you_reply_minutes, v)
    /\ UNCHANGED <<pc, messages, divisor, threshold_hours, top, messages_by_chat,
                   chats, scans, totals_sent, totals_received, left_on_read_you,
                   left_on_read_them, them_reply_minutes, report>>

\* The summary of the report: summarize_response_times on the pooled lists.
Summarize ==
    /\ pc = "samples"
    /\ report' = [summary |-> Summary, chats |-> <<>>]
    /\ pc' = "done"
    /\ UNCHANGED <<messages, divisor, threshold_hours, top, messages_by_chat,
                   chats, scans, totals_sent, totals_received, left_on_read_you,
                   left_on_read_them, you_reply_minutes, them_reply_minutes>>

NextP90 == AddSample \/ Summarize

SpecP90 == InitP90 /\ [][NextP90]_vars

\* ------------------------------------------------------------ properties
MsgsOf(c) == messages_by_chat[c].msgs

Opposite(msgs, i, j) == j > i /\ msgs[j].is_from_me # msgs[i].is_from_me

DatedOpposite(msgs, i, j) == Opposite(msgs, i, j) /\ msgs[j].date_raw # None

Nearest(S) == CHOOSE j \in S : \A k \in S : j <= k

ReadValid(m) == m.date_read_raw # None /\ m.date_read_raw # 0

\* 0 <= (reply - read) / divisor <= threshold_hours * 3600
TimelyReply(m, next_raw) ==
    /\ next_raw # None
    /\ next_raw - m.date_read_raw >= 0
    /\ next_raw - m.date_read_raw <= threshold_hours * SecondsPerHour * divisor

Classified(m, next_raw) ==
    ReadValid(m) /\ m.date_raw # None /\ ~TimelyReply(m, next_raw)

RECURSIVE SumFn(_, _)
SumFn(f, n) == IF n = 0 THEN 0 ELSE f[n] + SumFn(f, n - 1)

FirstSeen(id) ==
    Nearest({k \in 1..Len(messages) : messages[k].chat_id = id})

Min(a, b) == IF a < b THEN a ELSE b

\* C1 (as stated): the reply timestamp and direction of message i are null
\* exactly when no opposite-direction message occurs at a later index.
C1_NullIffNoLaterOpposite ==
    \A c \in 1..Len(scans) :
        LET msgs == MsgsOf(c) IN
        \A i \in 1..Len(msgs) :
            (scans[c].time[i] = None /\ scans[c].type[i] = None)
                <=> ~(\E j \in 1..Len(msgs) : Opposite(msgs, i, j))

\* C1 (amended): the reply timestamp of message i is null exactly when no
\* opposite-direction message with a non-null date_raw occurs at a later
\* index; the reply direction is null exactly when the timestamp is, and
\* otherwise it is the direction opposite to message i.
C1_NullIffNoLaterDatedOpposite ==
    \A c \in 1..Len(scans) :
        LET msgs == MsgsOf(c) IN
        \A i \in 1..Len(msgs) :
            /\ scans[c].time[i] = None
                 <=> ~(\E j \in 1..Len(msgs) : DatedOpposite(msgs, i, j))
            /\ scans[c].type[i] = None <=> scans[c].time[i] = None
            /\ scans[c].type[i] # None => scans[c].type[i] = 1 - msgs[i].is_from_me

\* A scanned chat in which a message is followed by an opposite message
\* without date and gets no reply, and another message does get a reply.
C1_Witness ==
    \E c \in 1..Len(scans) :
        LET msgs == MsgsOf(c) IN
        /\ \E i, j \in 1..Len(msgs) :
              /\ Opposite(msgs, i, j)
              /\ msgs[j].date_raw = None
              /\ scans[c].time[i] = None
        /\ \E i \in 1..Len(msgs) : scans[c].time[i] # None

\* C2 (as stated): a message with a later opposite-direction message gets
\* the raw timestamp of the nearest later opposite-direction message.
C2_NearestOpposite ==
    \A c \in 1..Len(scans) :
        LET msgs == MsgsOf(c) IN
        \A i \in 1..Len(msgs) :
            LET later == {j \in 1..Len(msgs) : Opposite(msgs, i, j)} IN
            later # {} => scans[c].time[i] = msgs[Nearest(later)].date_raw

\* C2 (amended): a message with a later opposite-direction message that has
\* a non-null date_raw gets the raw timestamp of the nearest such message.
C2_NearestDatedOpposite ==
    \A c \in 1..Len(scans) :
        LET msgs == MsgsOf(c) IN
        \A i \in 1..Len(msgs) :
            LET later == {j \in 1..Len(msgs) : DatedOpposite(msgs, i, j)} IN
            later # {} => scans[c].time[i] = msgs[Nearest(later)].date_raw

\* A run of same-sender messages with different timestamps is skipped: both
\* get the timestamp of the opposite message that follows the run.
C2_Witness ==
    \E c \in 1..Len(scans) :
        LET msgs == MsgsOf(c) IN
        \E i, k, j \in 1..Len(msgs) :
            /\ i < k /\ k < j
            /\ msgs[k].is_from_me = msgs[i].is_from_me
            /\ msgs[i].date_raw # None
            /\ msgs[k].date_raw # msgs[i].date_raw
            /\ DatedOpposite(msgs, i, j)
            /\ msgs[j].date_raw # msgs[k].date_raw
            /\ scans[c].time[i] = msgs[j].date_raw
            /\ scans[c].time[k] = msgs[j].date_raw

\* C3 (as stated): every message with a non-null, non-zero read timestamp is
\* counted as left on read unless its reply exists and
\* 0 <= delta <= threshold_hours * 3600.
C3_ReadCountedUnlessTimely ==
    \A c \in 1..Len(chats) :
        LET msgs == MsgsOf(c) IN
        chats[c].left_on_read.you_left_them + chats[c].left_on_read.they_left_you
            = Cardinality({i \in 1..Len(msgs) :
                  ReadValid(msgs[i]) /\ ~TimelyReply(msgs[i], scans[c].time[i])})

\* C3 (amended): every message with a non-null, non-zero read timestamp and
\* a non-null date_raw is counted as left on read unless its reply exists
\* and 0 <= delta <= threshold_hours * 3600; no other message is counted.
C3_DatedReadCountedUnlessTimely ==
    \A c \in 1..Len(chats) :
        LET msgs == MsgsOf(c) IN
        chats[c].left_on_read.you_left_them + chats[c].left_on_read.they_left_you
            = Cardinality({i \in 1..Len(msgs) : Classified(msgs[i], scans[c].time[i])})

\* A chat with a read message without reply and a read message whose reply
\* precedes the read timestamp, both counted.
C3_Witness ==
    \E c \in 1..Len(chats) :
        LET msgs == MsgsOf(c) IN
        /\ \E i \in 1..Len(msgs) :
              /\ ReadValid(msgs[i]) /\ msgs[i].date_raw # None
              /\ scans[c].time[i] = None
        /\ \E i \in 1..Len(msgs) :
              /\ ReadValid(msgs[i]) /\ msgs[i].date_raw # None
              /\ scans[c].time[i] # None
              /\ scans[c].time[i] - msgs[i].date_read_raw < 0
        /\ chats[c].left_on_read.you_left_them + chats[c].left_on_read.they_left_you = 2

\* C4: a message whose date_read_raw is null or 0 is never counted as left
\* on read: per chat and direction, and in the summary, the counts are at
\* most the number of messages with a non-null, non-zero read timestamp.
C4_UnreadNeverCounted ==
    /\ \A c \in 1..Len(chats) :
          LET msgs == MsgsOf(c) IN
          /\ chats[c].left_on_read.they_left_you
                <= Cardinality({i \in 1..Len(msgs) :
                      msgs[i].is_from_me = 1 /\ ReadValid(msgs[i])})
          /\ chats[c].left_on_read.you_left_them
                <= Cardinality({i \in 1..Len(msgs) :
                      msgs[i].is_from_me # 1 /\ ReadValid(msgs[i])})
    /\ pc = "done" =>
          report.summary.left_on_read.you_left_them
            + report.summary.left_on_read.they_left_you
                <= Cardinality({k \in 1..Len(messages) : ReadValid(messages[k])})

\* A chat whose messages are all unread (one with read timestamp 0 and a
\* date, never answered; one with a null read timestamp) and counts nothing.
C4_Witness ==
    \E c \in 1..Len(chats) :
        LET msgs == MsgsOf(c) IN
        /\ \A i \in 1..Len(msgs) : ~ReadValid(msgs[i])
        /\ \E i \in 1..Len(msgs) :
              /\ msgs[i].date_read_raw = 0
              /\ msgs[i].date_raw # None
              /\ scans[c].time[i] = None
        /\ \E i \in 1..Len(msgs) : msgs[i].date_read_raw = None
        /\ chats[c].left_on_read.you_left_them = 0
        /\ chats[c].left_on_read.they_left_you = 0

\* C5: they_left_you counts exactly the left-on-read messages sent by me and
\* you_left_them exactly those not sent by me; they_left_you <= sent and
\* you_left_them <= received.
C5_AttributedToOppositeParty ==
    \A c \in 1..Len(chats) :
        LET msgs == MsgsOf(c) IN
        /\ chats[c].left_on_read.they_left_you
              = Cardinality({i \in 1..Len(msgs) :
                    msgs[i].is_from_me = 1 /\ Classified(msgs[i], scans[c].time[i])})
        /\ chats[c].left_on_read.you_left_them
              = Cardinality({i \in 1..Len(msgs) :
                    msgs[i].is_from_me # 1 /\ Classified(msgs[i], scans[c].time[i])})
        /\ chats[c].left_on_read.they_left_you <= chats[c].totals.sent
        /\ chats[c].left_on_read.you_left_them <= chats[c].totals.received

\* A chat with messages of both directions in which only one sent by me is
\* left on read.
C5_Witness ==
    \E c \in 1..Len(chats) :
        LET msgs == MsgsOf(c) IN
        /\ \E i \in 1..Len(msgs) :
              msgs[i].is_from_me = 1 /\ Classified(msgs[i], scans[c].time[i])
        /\ \E i \in 1..Len(msgs) : msgs[i].is_from_me = 0
        /\ chats[c].left_on_read.they_left_you = 1
        /\ chats[c].left_on_read.you_left_them = 0

\* C6: for every conversation sent + received and total equal the length of
\* its message list, sent being the messages with is_from_me = 1 and
\* received the others.
C6_SentPlusReceivedIsLength ==
    \A c \in 1..Len(chats) :
        LET msgs == MsgsOf(c) IN
        /\ chats[c].totals.sent + chats[c].totals.received = Len(msgs)
        /\ chats[c].totals.total = Len(msgs)
        /\ chats[c].totals.sent
              = Cardinality({i \in 1..Len(msgs) : msgs[i].is_from_me = 1})
        /\ chats[c].totals.received
              = Cardinality({i \in 1..Len(msgs) : msgs[i].is_from_me # 1})

\* A conversation with messages of both directions.
C6_Witness ==
    \E c \in 1..Len(chats) :
        /\ chats[c].totals.sent >= 1
        /\ chats[c].totals.received >= 1
        /\ chats[c].totals.total >= 3

\* C7: in the returned report every count of the summary is the sum of the
\* per-conversation counts over all conversations of the input, truncated
\* or not, and the sample counts are the sums of the per-conversation
\* sample counts.
C7_SummaryIsSumOverAllChats ==
    pc = "done" =>
        LET n == Len(chats)
            Col(F(_)) == SumFn([c \in 1..n |-> F(chats[c])], n)
            Sent(e) == e.totals.sent
            Received(e) == e.totals.received
            Total(e) == e.totals.total
            YouLeft(e) == e.left_on_read.you_left_them
            TheyLeft(e) == e.left_on_read.they_left_you
            YouReply(e) == e.response_times.you_reply.count
            TheyReply(e) == e.response_times.they_reply.count
        IN  /\ n = Cardinality({messages[k].chat_id : k \in 1..Len(messages)})
            /\ report.summary.totals.sent = Col(Sent)
            /\ report.summary.totals.received = Col(Received)
            /\ report.summary.totals.total = Col(Total)
            /\ report.summary.totals.total = Len(messages)
            /\ report.summary.left_on_read.you_left_them = Col(YouLeft)
            /\ report.summary.left_on_read.they_left_you = Col(TheyLeft)
            /\ report.summary.response_times.you_reply.count = Col(YouReply)
            /\ report.summary.response_times.they_reply.count = Col(TheyReply)

\* A report over two conversations, one of them truncated out of chats[],
\* both with messages sent and left on read.
C7_Witness ==
    /\ pc = "done"
    /\ Len(chats) = 2
    /\ Len(report.chats) = 1
    /\ chats[1].totals.sent >= 1
    /\ chats[2].totals.sent >= 1
    /\ chats[1].left_on_read.they_left_you >= 1
    /\ chats[2].left_on_read.they_left_you >= 1
    /\ report.summary.totals.sent >= 2

\* C8: totals.total is non-increasing along chats[], and conversations with
\* equal total appear in the order of their first message in the input.
C8_RankingNonIncreasingStable ==
    pc = "done" =>
        \A i, j \in 1..Len(report.chats) :
            i < j =>
                /\ report.chats[i].totals.total >= report.chats[j].totals.total
                /\ report.chats[i].totals.total = report.chats[j].totals.total
                      => FirstSeen(report.chats[i].chat_id)
                            < FirstSeen(report.chats[j].chat_id)

\* Two conversations of equal total, both in chats[].
C8_Witness ==
    /\ pc = "done"
    /\ Len(report.chats) = 2
    /\ report.chats[1].totals.total = report.chats[2].totals.total

Included == {report.chats[i].chat_id : i \in 1..Len(report.chats)}

LeftOutBelowIncluded ==
    /\ \A i \in 1..Len(report.chats) : \E c \in 1..Len(chats) : report.chats[i] = chats[c]
    /\ Cardinality(Included) = Len(report.chats)
    /\ \A c \in 1..Len(chats) :
          chats[c].chat_id \notin Included =>
              \A i \in 1..Len(report.chats) :
                  chats[c].totals.total <= report.chats[i].totals.total

\* C9 (as stated): for any top, chats[] has min(top, number of
\* conversations) entries and every conversation left out has a total no
\* greater than every conversation included.
C9_TopNForAnyTop ==
    pc = "done" =>
        /\ Len(report.chats) = Min(top, Len(chats))
        /\ LeftOutBelowIncluded

\* C9 (amended): for any top >= 0, chats[] has min(top, number of
\* conversations) entries; for a negative top it has
\* max(number of conversations + top, 0) entries; in both cases every
\* conversation left out has a total no greater than every one included.
C9_TopNForNonNegativeTop ==
    pc = "done" =>
        /\ top >= 0 => Len(report.chats) = Min(top, Len(chats))
        /\ top < 0 => Len(report.chats) = Max0(Len(chats) + top)
        /\ LeftOutBelowIncluded

\* top = 1 over two conversations, the larger one met second in the input.
C9_Witness ==
    /\ pc = "done"
    /\ top = 1
    /\ Len(chats) = 2
    /\ chats[1].totals.total < chats[2].totals.total
    /\ report.chats = <<chats[2]>>

\* C10: a latency sample is recorded only for a message with a non-null
\* date_raw, a non-null next-opposite timestamp and a non-negative
\* difference, in they_reply for a message from me and in you_reply
\* otherwise; every sample is >= 0, they_reply.count <= sent and
\* you_reply.count <= received.
C10_SamplesOnlyForValidReplies ==
    \A c \in 1..Len(chats) :
        LET msgs == MsgsOf(c)
            Valid(i) == /\ msgs[i].date_raw # None
                        /\ scans[c].time[i] # None
                        /\ scans[c].time[i] - msgs[i].date_raw >= 0
        IN  /\ chats[c].response_times.they_reply.count
                  <= Cardinality({i \in 1..Len(msgs) : msgs[i].is_from_me = 1 /\ Valid(i)})
            /\ chats[c].response_times.you_reply.count
                  <= Cardinality({i \in 1..Len(msgs) : msgs[i].is_from_me # 1 /\ Valid(i)})
            /\ chats[c].response_times.they_reply.count = Len(scans[c].them_reply)
            /\ chats[c].response_times.you_reply.count = Len(scans[c].you_reply)
            /\ \A k \in 1..Len(scans[c].them_reply) : scans[c].them_reply[k] >= 0
            /\ \A k \in 1..Len(scans[c].you_reply) : scans[c].you_reply[k] >= 0
            /\ chats[c].response_times.they_reply.count <= chats[c].totals.sent
            /\ chats[c].response_times.you_reply.count <= chats[c].totals.received

\* A chat in which a dated message from me gets a sample and a message from
\* me without date has a reply but no sample.
C10_Witness ==
    \E c \in 1..Len(chats) :
        LET msgs == MsgsOf(c) IN
        /\ \E i \in 1..Len(msgs) :
              /\ msgs[i].is_from_me = 1
              /\ msgs[i].date_raw = None
              /\ scans[c].time[i] # None
        /\ chats[c].response_times.they_reply.count = 1
        /\ chats[c].response_times.you_reply.count = 0
        /\ scans[c].them_reply[1] > 0

\* Number of hundredths of a minute of the duration v / 60, to two decimals.
Hundredths(v) == (100 * v + 30) \div 60

\* The element at 0-based index k of the list s sorted ascending.
KthSmallest(s, k) ==
    CHOOSE x \in {s[i] : i \in 1..Len(s)} :
        /\ Cardinality({i \in 1..Len(s) : s[i] < x}) <= k
        /\ k < Cardinality({i \in 1..Len(s) : s[i] <= x})

Clamp(x, lo, hi) == IF x < lo THEN lo ELSE IF x > hi THEN hi ELSE x

\* round(0.9 * m) with one half rounded up.
HalfUp(m) == (9 * m + 5) \div 10

\* round(0.9 * m) with one half rounded to the even neighbour.
HalfEven(m) ==
    IF (9 * m) % 10 = 5 /\ ((9 * m) \div 10) % 2 = 0
    THEN (9 * m) \div 10
    ELSE HalfUp(m)

OneToTen == [k \in 1..10 |-> k * 60]

\* C11: for every non-empty sample list of length n the returned p90 (to two
\* decimals, like every field of the summary) is the element at index
\* round(0.9 * (n - 1)), one half rounded up, clamped to [0, n - 1], of the
\* list sorted ascending; it is a member of the input; for the samples
\* 1..10 minutes it is 9.
C11_P90AtHalfUpIndex ==
    (pc = "done" /\ you_reply_minutes # <<>>) =>
        LET s == you_reply_minutes
            n == Len(s)
            idx == Clamp(HalfUp(n - 1), 0, n - 1)
            out == report.summary.response_times.you_reply
        IN  /\ out.count = n
            /\ idx \in 0..(n - 1)
            /\ out.p90_minutes = Hundredths(KthSmallest(s, idx))
            /\ \E i \in 1..n : out.p90_minutes = Hundredths(s[i])
            /\ s = OneToTen => out.p90_minutes = 900

\* What summarize_response_times does: the same with one half rounded to
\* the even neighbour, so that n = 6 takes index 4.
C11_P90AtHalfEvenIndex ==
    (pc = "done" /\ you_reply_minutes # <<>>) =>
        LET s == you_reply_minutes
            n == Len(s)
            idx == Clamp(HalfEven(n - 1), 0, n - 1)
            out == report.summary.response_times.you_reply
        IN  /\ out.count = n
            /\ idx \in 0..(n - 1)
            /\ out.p90_minutes = Hundredths(KthSmallest(s, idx))
            /\ \E i \in 1..n : out.p90_minutes = Hundredths(s[i])
            /\ s = OneToTen => out.p90_minutes = 900
            /\ n = 6 => idx = 4

\* The samples 1..10 minutes summarized: index 8, p90 9.00.
C11_WitnessOneToTen ==
    pc = "done" /\ you_reply_minutes = OneToTen
        /\ report.summary.response_times.you_reply.p90_minutes = 900

====
